---- MODULE Spec2Model ----
(***************************************************************************)
(* A model of the finance backend: the extended-days (aging) calculation   *)
(* of app/api/v1/loans.py and outside_interest.py, the retrying transport  *)
(* wrapper DatabaseManager._make_request, and the API handlers on top of   *)
(* the DatabaseManager operations, run against a PostgREST-style store.    *)
(*                                                                         *)
(* Five specifications share the variables:                                *)
(*   SpecAging    calculate_extended_days applied to bounded inputs        *)
(*   SpecRequest  one _make_request call, attempt by attempt               *)
(*   Spec         API requests interleaving at their store calls           *)
(*   SpecRead     read requests over a populated store                     *)
(*   SpecCollect  collect requests on chits, one after the other           *)
(***************************************************************************)
EXTENDS Integers, Sequences, FiniteSets, TLC

VARIABLES
    agRecord,     \* aging: the record handed to calculate_extended_days
    agToday,      \* aging: date.today()
    agDone,       \* aging: whether calculate_extended_days has returned
    agResult,     \* aging: the value returned, <<>> for None and <<n>> for the int n
    agRaised,     \* aging: the exception that left the call ("" when it returned)
    rqMethod,     \* _make_request: the method argument
    rqSchedule,   \* _make_request: what the transport does on attempt 1, 2, ...
    rqPc,         \* _make_request: position in the loop body
    rqAttempt,    \* _make_request: the loop variable attempt
    rqPending,    \* _make_request: what the inner try block is about to do
    rqOpen,       \* _make_request: HTTP clients created and not yet closed
    rqSleeps,     \* _make_request: the backoff sleeps made so far (milliseconds)
    rqResult,     \* _make_request: the value returned, or the exception raised
    resource,     \* API: the resource whose endpoints the requests address
    rows,         \* store: the table of that resource, id -> row
    nextId,       \* store: the id the table's sequence assigns next
    payments,     \* store: the payments table, in insertion order
    req           \* API: each client's request in flight, with its response

aging_vars   == <<agRecord, agToday, agDone, agResult, agRaised>>
request_vars == <<rqMethod, rqSchedule, rqPc, rqAttempt, rqPending, rqOpen, rqSleeps,
                  rqResult>>
api_vars     == <<resource, rows, nextId, payments, req>>
vars         == <<aging_vars, request_vars, api_vars>>

\* Optional[int]: None is the empty sequence, the number n is <<n>>.
None == <<>>
Some(n) == <<n>>

(***************************************************************************)
(* Dates.  A date is <<year, month, day>>; Ordinal is date.toordinal(), so *)
(* that (a - b).days = Ordinal(a) - Ordinal(b).                            *)
(***************************************************************************)
YearSpan == 1
Years  == 2023..(2023 + YearSpan)
Months == 1..12

IsLeap(y) == (y % 4 = 0) /\ ((y % 100 # 0) \/ (y % 400 = 0))

DaysInMonth(y, m) ==
    IF m = 2 THEN (IF IsLeap(y) THEN 29 ELSE 28)
    ELSE IF m \in {4, 6, 9, 11} THEN 30 ELSE 31

DaysBeforeYear(y) ==
    LET p == y - 1 IN 365 * p + (p \div 4) - (p \div 100) + (p \div 400)

RECURSIVE DaysBeforeMonth(_, _)
DaysBeforeMonth(y, m) ==
    IF m = 1 THEN 0 ELSE DaysBeforeMonth(y, m - 1) + DaysInMonth(y, m - 1)

Ordinal(d) == DaysBeforeYear(d[1]) + DaysBeforeMonth(d[1], d[2]) + d[3]

DateLt(a, b) == Ordinal(a) < Ordinal(b)

ValidDate(d) == d[2] \in Months /\ d[3] >= 1 /\ d[3] <= DaysInMonth(d[1], d[2])

StartDays == {1, 15, 20, 31}
TodayDays == {1, 20, 29}
StartDates == {d \in Years \X Months \X StartDays : ValidDate(d)}
TodayDates == {d \in Years \X Months \X TodayDays : ValidDate(d)}

(***************************************************************************)
(* calculate_extended_days (loans.py 201-239; outside_interest.py 234-272  *)
(* is the same code reading date_of_lending instead of date_of_borrowing). *)
(***************************************************************************)
Frequencies == {"monthly", "bimonthly", "quarterly"}
StoredFrequencies == Frequencies \cup {"weekly"}

months_diff(today, start) == (today[1] - start[1]) * 12 + (today[2] - start[2])

\* The if/elif chain without else: an unrecognised value leaves expected_months
\* unbound (None here), and reading it raises UnboundLocalError.
expected_months(frequency, md) ==
    IF frequency = "monthly" THEN Some(md)
    ELSE IF frequency = "bimonthly" THEN Some(md * 2)
    ELSE IF frequency = "quarterly" THEN Some(md * 3)
    ELSE None

\* for _ in range(n): expected_end_date moves to the first day of the next month,
\* December rolling over to January of the next year; a non-positive n runs the
\* body zero times.
\* (a variant whose December roll-over forgets to move to the next year)
RECURSIVE AdvanceMonthsSameYear(_, _, _)
AdvanceMonthsSameYear(y, m, n) ==
    IF n <= 0 THEN <<y, m, 1>>
    ELSE IF m = 12 THEN AdvanceMonthsSameYear(y, 1, n - 1)
    ELSE AdvanceMonthsSameYear(y, m + 1, n - 1)

RECURSIVE AdvanceMonths(_, _, _)
AdvanceMonths(y, m, n) ==
    IF n <= 0 THEN <<y, m, 1>>
    ELSE IF m = 12 THEN AdvanceMonths(y + 1, 1, n - 1)
    ELSE AdvanceMonths(y, m + 1, n - 1)

\* (a variant that skips the is_closed test)
calculate_extended_days_unguarded(record, today) ==
    LET start == record.start
        em    == expected_months(record.payment_frequency, months_diff(today, start))
    IN  IF em = None THEN None
        ELSE LET e == AdvanceMonths(start[1], start[2], em[1])
             IN  IF DateLt(e, today) THEN Some(Ordinal(today) - Ordinal(e))
                 ELSE Some(0)

calculate_extended_days(record, today) ==
    IF record.is_closed THEN None
    ELSE LET start == record.start
             em    == expected_months(record.payment_frequency, months_diff(today, start))
         IN  IF em = None THEN None           \* except Exception: return None
             ELSE LET e == AdvanceMonths(start[1], start[2], em[1])
                  IN  IF DateLt(e, today) THEN Some(Ordinal(today) - Ordinal(e))
                      ELSE Some(0)

AgingRecords ==
    [is_closed : BOOLEAN, start : StartDates, payment_frequency : StoredFrequencies]

InitAging ==
    /\ agRecord \in AgingRecords
    /\ agToday \in TodayDates
    /\ agDone = FALSE
    /\ agResult = None
    /\ agRaised = ""

\* The whole body sits in try/except Exception, so no exception leaves the call.
CalculateExtendedDays ==
    /\ ~agDone
    /\ agDone' = TRUE
    /\ agResult' = calculate_extended_days(agRecord, agToday)
    /\ agRaised' = ""
    /\ UNCHANGED <<agRecord, agToday>>

(***************************************************************************)
(* JSON values as the code tells them apart: a list of rows, or a dict     *)
(* (one object; no rows is the empty dict {}).                             *)
(***************************************************************************)
JsonList(items) == [type |-> "list", rows |-> items]
JsonDict(items) == [type |-> "dict", rows |-> items]
EmptyDict == JsonDict(<<>>)

\* What the transport does on one attempt: it raises, or a response arrives.
NetworkError(name) == [kind |-> "exception", exc |-> name, status |-> 0, content |-> <<>>]
Response(status, content) ==
    [kind |-> "response", exc |-> "", status |-> status, content |-> content]

\* A response content is <<>> (no body) or <<json>>.
NoContent == <<>>
Body(json) == <<json>>

(***************************************************************************)
(* DatabaseManager._make_request (connection.py 70-129), one step per      *)
(* suspension point of the loop body.                                      *)
(***************************************************************************)
max_retries == 2

SupportedMethods == {"GET", "POST", "PUT", "PATCH", "DELETE"}
Methods == SupportedMethods \cup {"HEAD"}

ScheduleLen == 4
SampleRow == [id |-> 1]
TransportOutcomes ==
    { NetworkError("ConnectError"),
      Response(200, Body(JsonList(<<SampleRow>>))),
      Response(201, NoContent),
      Response(400, Body(JsonDict(<<>>))) }

NoResult == [kind |-> "none", value |-> EmptyDict, exc |-> ""]
Return(json) == [kind |-> "return", value |-> json, exc |-> ""]
Raise(name)  == [kind |-> "raise", value |-> EmptyDict, exc |-> name]

\* response.json() if response.content else {}
response_content(response) ==
    IF response.content = NoContent THEN EmptyDict ELSE response.content[1]

\* The inner try block of one attempt: the method dispatch, the status check and
\* the decoding of the body.  Every failure is an exception of the attempt.
attempt_outcome(method, outcome) ==
    IF method \notin SupportedMethods THEN Raise("ValueError")
    ELSE IF outcome.kind = "exception" THEN Raise(outcome.exc)
    ELSE IF outcome.status >= 400 THEN Raise("HTTPStatusError")
    ELSE Return(response_content(outcome))

\* (a variant that waits the same time before every retry)
backoff_ms_flat(attempt) == 500

\* asyncio.sleep(0.5 * (2 ** attempt)), in milliseconds
backoff_ms(attempt) == 500 * (2 ^ attempt)

InitRequest ==
    /\ rqMethod \in Methods
    /\ rqSchedule \in [1..ScheduleLen -> TransportOutcomes]
    /\ rqPc = "open"
    /\ rqAttempt = 0
    /\ rqPending = NoResult
    /\ rqOpen = 0
    /\ rqSleeps = <<>>
    /\ rqResult = NoResult

\* client = httpx.AsyncClient(...)
OpenClient ==
    /\ rqPc = "open"
    /\ rqAttempt + 1 <= ScheduleLen
    /\ rqOpen' = rqOpen + 1
    /\ rqPc' = "send"
    /\ UNCHANGED <<rqMethod, rqSchedule, rqAttempt, rqPending, rqSleeps, rqResult>>

\* await client.get/post/put/patch/delete, raise_for_status, response.json()
SendRequest ==
    /\ rqPc = "send"
    /\ rqPending' = attempt_outcome(rqMethod, rqSchedule[rqAttempt + 1])
    /\ rqPc' = "finally"
    /\ UNCHANGED <<rqMethod, rqSchedule, rqAttempt, rqOpen, rqSleeps, rqResult>>

\* (a variant that closes the client only after a successful attempt)
CloseClientOnSuccess ==
    /\ rqPc = "finally"
    /\ rqOpen' = IF rqPending.kind = "return" THEN rqOpen - 1 ELSE rqOpen
    /\ IF rqPending.kind = "return"
          THEN rqPc' = "returned" /\ rqResult' = rqPending
          ELSE rqPc' = "except" /\ UNCHANGED rqResult
    /\ UNCHANGED <<rqMethod, rqSchedule, rqAttempt, rqPending, rqSleeps>>

\* finally: await client.aclose(); then the return, or the exception travels on
CloseClient ==
    /\ rqPc = "finally"
    /\ rqOpen' = rqOpen - 1
    /\ IF rqPending.kind = "return"
          THEN rqPc' = "returned" /\ rqResult' = rqPending
          ELSE rqPc' = "except" /\ UNCHANGED rqResult
    /\ UNCHANGED <<rqMethod, rqSchedule, rqAttempt, rqPending, rqSleeps>>

\* (a variant that gives up one attempt early)
HandleExceptionEarly ==
    /\ rqPc = "except"
    /\ IF rqAttempt < max_retries - 1
          THEN /\ rqSleeps' = Append(rqSleeps, backoff_ms(rqAttempt))
               /\ rqAttempt' = rqAttempt + 1
               /\ rqPc' = "open"
               /\ UNCHANGED rqResult
          ELSE /\ rqPc' = "raised"
               /\ rqResult' = rqPending
               /\ UNCHANGED <<rqAttempt, rqSleeps>>
    /\ UNCHANGED <<rqMethod, rqSchedule, rqPending, rqOpen>>

\* except Exception: sleep and continue while attempt < max_retries, else raise e
HandleException ==
    /\ rqPc = "except"
    /\ IF rqAttempt < max_retries
          THEN /\ rqSleeps' = Append(rqSleeps, backoff_ms(rqAttempt))
               /\ rqAttempt' = rqAttempt + 1
               /\ rqPc' = "open"
               /\ UNCHANGED rqResult
          ELSE /\ rqPc' = "raised"
               /\ rqResult' = rqPending
               /\ UNCHANGED <<rqAttempt, rqSleeps>>
    /\ UNCHANGED <<rqMethod, rqSchedule, rqPending, rqOpen>>

(***************************************************************************)
(* The store: one PostgREST table per resource (connection.py addresses    *)
(* it as GET/POST/PATCH/DELETE /rest/v1/<table>?<filters>).  A row keeps   *)
(* the columns the handlers read or write: name stands for the descriptive *)
(* columns (vehicle_name, lender_name, to_whom, chit_name, ...),           *)
(* closure_date and deleted_at are TRUE when the column is not null.       *)
(***************************************************************************)
MaxId == 2
Ids == 1..MaxId
Names == {"a", "b"}

Entities  == {"vehicle", "loan", "outside_interest", "chit"}
Resources == Entities \cup {"payment"}

\* The amount columns: principle_amount (vehicles, loans, outside interest), and
\* total_amount with monthly_amount = total_amount / duration_months (chits,
\* chits.py 114); a table simply ignores the columns of the other resources.
\* collected_amount is 0 and collected_date FALSE while the column is null.
AbsentRow ==
    [exists |-> FALSE, name |-> "", is_closed |-> FALSE, closure_date |-> FALSE,
     deleted_at |-> FALSE, principle_amount |-> 0, total_amount |-> 0,
     monthly_amount |-> 0, interest_rate_indian |-> 0,
     is_collected |-> FALSE, collected_amount |-> 0, collected_date |-> FALSE]
NewRow(name) ==
    [exists |-> TRUE, name |-> name, is_closed |-> FALSE, closure_date |-> FALSE,
     deleted_at |-> FALSE, principle_amount |-> 1000, total_amount |-> 12000,
     monthly_amount |-> 1000, interest_rate_indian |-> 12,
     is_collected |-> FALSE, collected_amount |-> 0, collected_date |-> FALSE]

\* The JSON object the store returns for row i.
RowJson(i, r) ==
    [id |-> i, name |-> r.name, is_closed |-> r.is_closed,
     closure_date |-> r.closure_date, deleted_at |-> r.deleted_at,
     principle_amount |-> r.principle_amount, total_amount |-> r.total_amount,
     monthly_amount |-> r.monthly_amount,
     interest_rate_indian |-> r.interest_rate_indian,
     is_collected |-> r.is_collected, collected_amount |-> r.collected_amount,
     collected_date |-> r.collected_date]

RECURSIVE RowsFrom(_, _, _)
RowsFrom(rs, S, i) ==
    IF i > MaxId THEN <<>>
    ELSE (IF i \in S THEN <<RowJson(i, rs[i])>> ELSE <<>>) \o RowsFrom(rs, S, i + 1)

\* GET <table>?deleted_at=is.null : the rows not soft-deleted, in id order.
\* (a variant whose filter lets soft-deleted rows through)
StoredIds(rs) == {i \in Ids : rs[i].exists}

LiveIds(rs) == {i \in Ids : rs[i].exists /\ ~rs[i].deleted_at}
SelectLive(rs) == RowsFrom(rs, LiveIds(rs), 1)
\* GET <table>?is_closed=eq.<b>&deleted_at=is.null
SelectLiveWhere(rs, b) == RowsFrom(rs, {i \in LiveIds(rs) : rs[i].is_closed = b}, 1)
\* GET <table>?id=eq.<id>&deleted_at=is.null
SelectLiveById(rs, id) == RowsFrom(rs, LiveIds(rs) \cap {id}, 1)

\* PATCH <table>?id=eq.<id> : every row with that id, soft-deleted or not, gets
\* the columns of the body; a filter that matches no row is no error.
PatchById(rs, id, cols) ==
    [i \in Ids |-> IF i = id /\ rs[i].exists
                   THEN [c \in DOMAIN rs[i] |->
                            IF c \in DOMAIN cols THEN cols[c] ELSE rs[i][c]]
                   ELSE rs[i]]

\* DELETE <table>?id=eq.<id>
DeleteById(rs, id) == [i \in Ids |-> IF i = id THEN AbsentRow ELSE rs[i]]

\* POST <table> applied k times: k new rows with consecutive ids.
InsertRows(rs, first, k, name) ==
    [i \in Ids |-> IF i >= first /\ i < first + k THEN NewRow(name) ELSE rs[i]]

(***************************************************************************)
(* Payments (the payments table and the sums the handlers take over it)    *)
(***************************************************************************)
MaxPayments == 2
Payment(id, st, sid, amount, ptype) ==
    [id |-> id, source_type |-> st, source_id |-> sid, amount |-> amount,
     payment_type |-> ptype]

\* GET payments?source_type=eq.<st>&source_id=eq.<sid>
RECURSIVE SelectPayments(_, _, _)
SelectPayments(ps, st, sid) ==
    IF ps = <<>> THEN <<>>
    ELSE (IF ps[1].source_type = st /\ ps[1].source_id = sid THEN <<ps[1]>> ELSE <<>>)
         \o SelectPayments(Tail(ps), st, sid)

\* sum(p["amount"] for p in payments)
RECURSIVE SumAmounts(_)
SumAmounts(ps) == IF ps = <<>> THEN 0 ELSE ps[1].amount + SumAmounts(Tail(ps))

(***************************************************************************)
(* DatabaseManager operations.  Each makes one _make_request call; a call  *)
(* either delivers the store's response or, when every attempt fails,      *)
(* raises.  A write whose attempts all fail may still have reached the     *)
(* store (the response was lost).                                          *)
(***************************************************************************)
\* The ways a read ends: delivered or not.  The ways a PATCH or DELETE ends:
\* whether the store applied it, and whether its response was delivered.
WriteOutcomes ==
    {o \in [applied : BOOLEAN, delivered : BOOLEAN] : o.delivered => o.applied}

\* next((x for x in records if x["id"] == id), None), as a sequence of <= 1 row
RECURSIVE FindById(_, _)
FindById(list, id) ==
    IF list = <<>> THEN <<>>
    ELSE IF list[1].id = id THEN <<list[1]>> ELSE FindById(Tail(list), id)

\* for row in reversed(records): the last row whose details match
RECURSIVE FindLastByName(_, _)
FindLastByName(list, name) ==
    IF list = <<>> THEN <<>>
    ELSE IF list[Len(list)].name = name THEN <<list[Len(list)]>>
    ELSE FindLastByName(SubSeq(list, 1, Len(list) - 1), name)

\* get_vehicles / get_loans / get_outside_interest / get_chits without filter:
\* the rows, or [] when the request raised (except Exception: return []).
db_list(rs, delivered) == IF delivered THEN SelectLive(rs) ELSE <<>>

\* The same with the is_closed argument: None lists every live row, a boolean
\* adds the is_closed filter to the query.
db_list_where(rs, is_closed, delivered) ==
    IF ~delivered THEN <<>>
    ELSE IF is_closed = None THEN SelectLive(rs)
    ELSE SelectLiveWhere(rs, is_closed[1])

\* get_vehicle_by_id / get_chit_by_id: result[0], or None for an empty list and
\* for a request that raised (except Exception: return None).
db_get_by_id(rs, id, delivered) ==
    IF delivered /\ Len(SelectLiveById(rs, id)) > 0
    THEN <<SelectLiveById(rs, id)[1]>> ELSE <<>>

\* get_payments(source_type, source_id): the rows, or [] when the request raised.
db_get_payments(ps, st, sid, delivered) ==
    IF delivered THEN SelectPayments(ps, st, sid) ELSE <<>>

\* How a handler looks a record up by id: vehicles and chits ask the store for
\* the id, loans and outside-interest records list the table and search it.
UsesGetById(res) == res \in {"vehicle", "chit"}
lookup(res, rs, id, delivered) ==
    IF UsesGetById(res) THEN db_get_by_id(rs, id, delivered)
    ELSE FindById(db_list(rs, delivered), id)

(***************************************************************************)
(* API requests.  req[c] is client c's request: its endpoint (op), the id  *)
(* in its path, its position (pc), its response once pc = "done", and a    *)
(* log of the DatabaseManager calls it made (history, read by the claims). *)
(* A behaviour addresses one resource: no handler modelled here reads or   *)
(* writes another resource's table.  Requests interleave at their awaits,  *)
(* that is between two DatabaseManager calls.                              *)
(***************************************************************************)
Clients == {"c1", "c2"}
CreateName == "a"
UpdateName == "b"

\* A float that is a quotient is kept as the fraction <<numerator, denominator>>.
Fraction(n, d) == <<n, d>>
Zero == Fraction(0, 1)

IdleReq ==
    [op |-> "idle", id |-> 0, pc |-> "idle", status |-> 0, body |-> <<>>,
     total_payments |-> 0, pending_amount |-> 0, total_profit |-> 0,
     profit_percentage |-> Zero, payments_count |-> 0,
     is_closed |-> None, items |-> <<>>, source_type |-> "", successes |-> <<>>,
     extended_days |-> None, id_stored |-> FALSE, log |-> <<>>]

\* One DatabaseManager call: which, whether its transport delivered a response,
\* whether a live row with the request's id was in the store when it ran, whether
\* it changed a stored row, and what it handed back ("value", "empty" for
\* [] / None / {} / False, or "raise").
Call(name, delivered, live, changed, ret) ==
    [call |-> name, delivered |-> delivered, live |-> live, changed |-> changed,
     ret |-> ret]

Endpoints(res) ==
    CASE res = "vehicle"          -> {"get", "create", "update", "close", "delete"}
      [] res = "loan"             -> {"get", "create", "update", "close"}
      [] res = "outside_interest" -> {"get", "create", "update", "close", "delete"}
      [] res = "chit"             -> {"get", "create", "update", "close", "delete",
                                      "collect"}
      [] OTHER                    -> {"create"}

\* The first store call of each handler.
FirstPc(res, op) ==
    CASE op = "get"    -> "fetch"
      [] op = "create" -> IF res = "payment" THEN "validate" ELSE "post"
      [] op = "update" -> "check"
      [] op = "close"  -> "patch_close"
      [] op = "collect" -> "collect_check"
      [] OTHER         -> IF res = "chit" THEN "write_delete" ELSE "check"

Respond(r, status, body, call) ==
    [r EXCEPT !.pc = "done", !.status = status, !.body = body,
              !.log = Append(r.log, call)]
Continue(r, pc, body, call) ==
    [r EXCEPT !.pc = pc, !.body = body, !.log = Append(r.log, call)]

IsLive(rs, id) == id \in Ids /\ rs[id].exists /\ ~rs[id].deleted_at
Ret(found) == IF found = <<>> THEN "empty" ELSE "value"

\* The SourceType enum of base.py, and the source_type values a create-payment
\* request may carry in its body.
SourceType == {"vehicle", "outside_interest", "loan", "other"}
RequestedSourceTypes == {"vehicle", "loan", "outside_interest", "chit", "other"}

StartRequest(c) ==
    /\ req[c].pc = "idle"
    /\ \E op \in Endpoints(resource), id \in Ids, st \in RequestedSourceTypes :
          /\ (resource # "payment") => st = "other"
          /\ req' = [req EXCEPT ![c] =
                       [IdleReq EXCEPT !.op = op, !.pc = FirstPc(resource, op),
                                       !.id = IF op = "create" THEN 0 ELSE id,
                                       !.source_type =
                                           IF resource = "payment" THEN st ELSE ""]]
    /\ UNCHANGED <<resource, rows, nextId, payments>>

\* The response has been sent; the client may issue its next request.
Finish(c) ==
    /\ req[c].pc = "done"
    /\ req' = [req EXCEPT ![c] = IdleReq]
    /\ UNCHANGED <<resource, rows, nextId, payments>>

\* GET /<resource>/{id}, first part (vehicles.py 84-91, loans.py 48-56,
\* outside_interest.py 48-56, chits.py 63-70): look the record up, 404 without it.
get_record_response(r, res, found, call) ==
    IF found = <<>> THEN Respond(r, 404, <<>>, call)
    ELSE Continue(r, "payments", found, call)

FetchRecord(c) ==
    /\ req[c].pc = "fetch"
    /\ \E delivered \in BOOLEAN :
          LET found == lookup(resource, rows, req[c].id, delivered)
              call  == Call(IF UsesGetById(resource) THEN "get_by_id" ELSE "list",
                            delivered, IsLive(rows, req[c].id), FALSE,
                            IF UsesGetById(resource) THEN Ret(found)
                            ELSE Ret(db_list(rows, delivered)))
          IN  req' = [req EXCEPT ![c] = get_record_response(req[c], resource, found, call)]
    /\ UNCHANGED <<resource, rows, nextId, payments>>

\* (a variant that adds every amount up, whatever its type)
SumOfAnyType(ps, ptype) == SumAmounts(ps)

\* The sums over the record's payments: vehicles.py 95-97 (every amount; pending is
\* what is left of the principal), loans.py 241-252 and outside_interest.py 274-285
\* (credits and debits), chits.py 73-76 and 185-186 (every amount).
RECURSIVE SumOfType(_, _)
SumOfType(ps, ptype) ==
    IF ps = <<>> THEN 0
    ELSE (IF ps[1].payment_type = ptype THEN ps[1].amount ELSE 0)
         + SumOfType(Tail(ps), ptype)

payment_totals(res, principal, ps) ==
    IF res = "vehicle"
    THEN <<SumAmounts(ps),
           IF principal - SumAmounts(ps) > 0 THEN principal - SumAmounts(ps) ELSE 0>>
    ELSE IF res = "chit" THEN <<SumAmounts(ps), 0>>
    ELSE <<SumOfType(ps, "credit"), SumOfType(ps, "debit")>>

\* The profit figures of a chit (chits.py 75-93 in get_chit, 28-46 in get_chits):
\* expected_total is monthly_amount * len(payments), 0 without payments;
\* total_profit is expected_total - total_payments if expected_total > 0 else 0;
\* profit_percentage is (total_profit / total_amount) * 100 if total_amount > 0.
expected_total(chit, ps) == IF Len(ps) > 0 THEN chit.monthly_amount * Len(ps) ELSE 0

\* (a variant that never reports a loss)
chit_total_profit_clamped(chit, ps) ==
    IF expected_total(chit, ps) > SumAmounts(ps)
    THEN expected_total(chit, ps) - SumAmounts(ps) ELSE 0

chit_total_profit(chit, ps) ==
    IF expected_total(chit, ps) > 0
    THEN expected_total(chit, ps) - SumAmounts(ps) ELSE 0

chit_profit_percentage(chit, ps) ==
    IF chit.total_amount > 0
    THEN Fraction(chit_total_profit(chit, ps) * 100, chit.total_amount)
    ELSE Zero

\* The derived fields a handler adds to a record before returning it.
enrich(r, res, record, ps) ==
    [r EXCEPT !.total_payments = payment_totals(res, record.principle_amount, ps)[1],
              !.pending_amount = payment_totals(res, record.principle_amount, ps)[2],
              !.total_profit = IF res = "chit" THEN chit_total_profit(record, ps) ELSE 0,
              !.profit_percentage =
                  IF res = "chit" THEN chit_profit_percentage(record, ps) ELSE Zero,
              !.payments_count = IF res = "chit" THEN Len(ps) ELSE 0,
              \* loans.py 59, outside_interest.py 59: calculate_extended_days of
              \* the record, here one lent monthly on 2024-01-15 and read on
              \* 2024-03-20.
              !.extended_days =
                  IF res \in {"loan", "outside_interest"}
                  THEN calculate_extended_days(
                           [is_closed |-> record.is_closed, start |-> <<2024, 1, 15>>,
                            payment_frequency |-> "monthly"], <<2024, 3, 20>>)
                  ELSE None]

\* The payments of the record are fetched and summed, and the record is returned.
FetchPayments(c) ==
    /\ req[c].pc = "payments"
    /\ \E delivered \in BOOLEAN :
          LET ps   == db_get_payments(payments, resource, req[c].id, delivered)
              call == Call("get_payments", delivered, IsLive(rows, req[c].id), FALSE,
                           Ret(ps))
          IN  req' = [req EXCEPT ![c] =
                        enrich(Respond(req[c], 200, req[c].body, call), resource,
                               req[c].body[1], ps)]
    /\ UNCHANGED <<resource, rows, nextId, payments>>

\* The existence check that opens update (vehicles.py 169-175, loans.py 114-121,
\* outside_interest.py 114-121, chits.py 159-165) and delete (vehicles.py 226-232,
\* outside_interest.py 296-303).
check_response(r, found, call) ==
    IF found = <<>> THEN Respond(r, 404, <<>>, call)
    ELSE Continue(r, IF r.op = "update" THEN "patch_update" ELSE "write_delete",
                  <<>>, call)

CheckExists(c) ==
    /\ req[c].pc = "check"
    /\ \E delivered \in BOOLEAN :
          LET found == lookup(resource, rows, req[c].id, delivered)
              call  == Call(IF UsesGetById(resource) THEN "get_by_id" ELSE "list",
                            delivered, IsLive(rows, req[c].id), FALSE,
                            IF UsesGetById(resource) THEN Ret(found)
                            ELSE Ret(db_list(rows, delivered)))
          IN  req' = [req EXCEPT ![c] = check_response(req[c], found, call)]
    /\ UNCHANGED <<resource, rows, nextId, payments>>

\* POST /<resource>: the handlers of vehicles.py 120-157, loans.py 74-102,
\* outside_interest.py 74-102, chits.py 105-147 and payments.py 134-162 over
\* create_vehicle / create_loan / create_chit (connection.py 226-259, 543-590,
\* 697-729), create_outside_interest (436-467) and create_payment (403-434).
\* The POST may reach the store on several attempts of one _make_request call.
SamplePayment(id) == Payment(id, "other", 1, 100, "credit")
\* payment_data of create_payment (payments.py 143-151) for a body of that
\* source_type, as the row the store makes of it.
payment_data(id, st) == [SamplePayment(id) EXCEPT !.source_type = st]

\* POST /payments/: the body is parsed into PaymentCreate before the handler
\* runs; a source_type outside the SourceType enum is answered 422 and the
\* handler, and so the store, is never reached.
validation_response(r) ==
    IF r.source_type \in SourceType THEN [r EXCEPT !.pc = "post"]
    ELSE [r EXCEPT !.pc = "done", !.status = 422]

ValidatePayment(c) ==
    /\ req[c].pc = "validate"
    /\ req' = [req EXCEPT ![c] = validation_response(req[c])]
    /\ UNCHANGED <<resource, rows, nextId, payments>>

RECURSIVE AppendPayments(_, _, _)
AppendPayments(ps, k, st) ==
    IF k = 0 THEN ps
    ELSE AppendPayments(Append(ps, payment_data(Len(ps) + 1, st)), k - 1, st)

\* What the create call hands the handler once the POST was delivered: the echoed
\* row; or for an empty body the stand-in the code builds (outside-interest: id 1
\* from interest_data.get("id", 1); payment: id 0), or nothing yet (vehicle, loan
\* and chit go on to search the table).
created_record(res, st, echoed, newId) ==
    IF echoed THEN <<RowJson(newId, NewRow(CreateName))>>
    ELSE IF res = "outside_interest" THEN <<RowJson(1, NewRow(CreateName))>>
    ELSE IF res = "payment" THEN <<payment_data(0, st)>>
    ELSE <<>>

post_response(r, res, delivered, echoed, newId, call) ==
    IF ~delivered THEN Respond(r, 500, <<>>, call)
    ELSE IF created_record(res, r.source_type, echoed, newId) = <<>>
         THEN Continue(r, "reconcile", <<>>, call)
         ELSE Respond(r, 200,
                      IF res = "payment" /\ echoed
                      THEN <<payment_data(newId, r.source_type)>>
                      ELSE created_record(res, r.source_type, echoed, newId), call)

StoredId(res, rs, ps, body) ==
    /\ body # <<>>
    /\ IF res = "payment" THEN body[1].id \in 1..Len(ps)
       ELSE body[1].id \in Ids /\ rs[body[1].id].exists

PostRecord(c) ==
    /\ req[c].pc = "post"
    /\ \E k \in 0..(max_retries + 1), delivered \in BOOLEAN, echoed \in BOOLEAN :
          /\ delivered => k >= 1
          /\ echoed => delivered
          /\ IF resource = "payment"
               THEN /\ Len(payments) + k <= MaxPayments
                    /\ payments' = AppendPayments(payments, k, req[c].source_type)
                    /\ UNCHANGED <<rows, nextId>>
               ELSE /\ nextId + k - 1 <= MaxId
                    /\ rows' = InsertRows(rows, nextId, k, CreateName)
                    /\ nextId' = nextId + k
                    /\ UNCHANGED payments
          /\ LET newId == IF resource = "payment" THEN Len(payments) + k
                          ELSE nextId + k - 1
                 call  == Call("post", delivered, FALSE, k > 0,
                               IF ~delivered THEN "raise"
                               ELSE IF echoed THEN "value" ELSE "empty")
                 next  == post_response(req[c], resource, delivered, echoed, newId, call)
             IN  req' = [req EXCEPT ![c] =
                           [next EXCEPT !.id_stored =
                               StoredId(resource, rows', payments', next.body)]]
    /\ UNCHANGED resource

\* The search for the created row after a POST without a body (connection.py
\* 244-255, 576-586, 714-725): the last listed row with the same details, or an
\* exception, which the handler turns into 500.
reconcile_response(r, found, call) ==
    IF found = <<>> THEN Respond(r, 500, <<>>, call) ELSE Respond(r, 200, found, call)

Reconcile(c) ==
    /\ req[c].pc = "reconcile"
    /\ \E delivered \in BOOLEAN :
          LET found == FindLastByName(db_list(rows, delivered), CreateName)
              call  == Call("list", delivered, FALSE, FALSE,
                            Ret(db_list(rows, delivered)))
              next  == reconcile_response(req[c], found, call)
          IN  req' = [req EXCEPT ![c] =
                        [next EXCEPT !.id_stored =
                            StoredId(resource, rows, payments, next.body)]]
    /\ UNCHANGED <<resource, rows, nextId, payments>>

\* PUT /<resource>/{id} after the existence check: the PATCH of update_vehicle
\* (connection.py 294-296), update_loan (601-603), update_outside_interest
\* (472-473), update_chit (735-737).  A PATCH that raises ends the request with
\* 500: {} through "if not updated_..." or the exception through the handler.
\* The body of the PUT as the handler hands it on (the fields that are not None,
\* loans.py 124): a new name and, where the resource has the column, a new
\* interest_rate_indian.
update_data(res) ==
    IF res \in {"loan", "outside_interest"}
    THEN [name |-> UpdateName, interest_rate_indian |-> 18]
    ELSE [name |-> UpdateName]

\* clean_update_data of update_loan (connection.py 597-598), which pops
\* interest_rate_indian; the other update operations send the body as it is.
clean_update_data(res, data) ==
    IF res = "loan"
    THEN [k \in DOMAIN data \ {"interest_rate_indian"} |-> data[k]]
    ELSE data

patch_update_response(r, delivered, call) ==
    IF delivered THEN Continue(r, "refetch", <<>>, call)
    ELSE Respond(r, 500, <<>>, call)

PatchUpdate(c) ==
    /\ req[c].pc = "patch_update"
    /\ \E o \in WriteOutcomes :
          /\ rows' = IF o.applied
                     THEN PatchById(rows, req[c].id,
                                    clean_update_data(resource, update_data(resource)))
                     ELSE rows
          /\ LET call == Call("patch", o.delivered, IsLive(rows, req[c].id),
                              rows' # rows, IF o.delivered THEN "empty" ELSE "raise")
             IN  req' = [req EXCEPT ![c] =
                           patch_update_response(req[c], o.delivered, call)]
    /\ UNCHANGED <<resource, nextId, payments>>

\* The re-fetch after the PATCH: GET by id inside update_vehicle (connection.py
\* 305-315) and update_loan (612-622), get_outside_interest and a search in
\* update_outside_interest (477-483), get_chit_by_id in update_chit (746-752).
refetch(res, rs, id, delivered) ==
    IF res = "outside_interest" THEN FindById(db_list(rs, delivered), id)
    ELSE db_get_by_id(rs, id, delivered)

\* (a variant that hands an empty result back as the updated record)
update_response_unchecked(r, res, found, call) ==
    IF res = "chit" /\ found # <<>> THEN Continue(r, "payments", found, call)
    ELSE Respond(r, 200, found, call)

\* No row after the update: {} (vehicle, loan, chit) makes the handler answer 500
\* (vehicles.py 201-206, loans.py 127-131, chits.py 178-182), "Updated record not
\* found" raised by update_outside_interest does too (outside_interest.py 136-141).
update_response(r, res, found, call) ==
    IF found = <<>> THEN Respond(r, 500, <<>>, call)
    ELSE IF res = "chit" THEN Continue(r, "payments", found, call)
    ELSE Respond(r, 200, found, call)

Refetch(c) ==
    /\ req[c].pc = "refetch"
    /\ \E delivered \in BOOLEAN :
          LET found == refetch(resource, rows, req[c].id, delivered)
              call  == Call(IF resource = "outside_interest" THEN "list" ELSE "get_by_id",
                            delivered, IsLive(rows, req[c].id), FALSE,
                            IF resource = "outside_interest"
                            THEN Ret(db_list(rows, delivered)) ELSE Ret(found))
          IN  req' = [req EXCEPT ![c] = update_response(req[c], resource, found, call)]
    /\ UNCHANGED <<resource, rows, nextId, payments>>

\* POST /<resource>/{id}/close: close_vehicle (connection.py 328-343), close_loan
\* (635-650), close_outside_interest (489-504), close_chit (758-773) return True
\* unless the PATCH raised; False is 500 (vehicles.py 265-272, loans.py 151-159,
\* outside_interest.py 151-159) and, for a chit, 404 (chits.py 213-221).
close_response(r, res, delivered, call) ==
    IF delivered THEN Respond(r, 200, <<>>, call)
    ELSE Respond(r, IF res = "chit" THEN 404 ELSE 500, <<>>, call)

\* (a variant that marks the record closed without dating the closure)
close_update_data_undated == [is_closed |-> TRUE]

\* update_data of close_vehicle, close_outside_interest, close_loan, close_chit.
close_update_data == [is_closed |-> TRUE, closure_date |-> TRUE]

PatchClose(c) ==
    /\ req[c].pc = "patch_close"
    /\ \E o \in WriteOutcomes :
          /\ rows' = IF o.applied
                     THEN PatchById(rows, req[c].id, close_update_data)
                     ELSE rows
          /\ LET call == Call("patch", o.delivered, IsLive(rows, req[c].id),
                              rows' # rows, IF o.delivered THEN "value" ELSE "empty")
             IN  req' = [req EXCEPT ![c] =
                           close_response(req[c], resource, o.delivered, call)]
    /\ UNCHANGED <<resource, nextId, payments>>

\* DELETE /<resource>/{id}: soft_delete_vehicle stamps deleted_at (connection.py
\* 345-361), delete_outside_interest and delete_chit issue DELETE (506-517,
\* 793-804); False is 500 (vehicles.py 236-246, outside_interest.py 306-314) and,
\* for a chit, 404 (chits.py 286-294).
delete_response(r, res, delivered, call) ==
    IF delivered THEN Respond(r, 200, <<>>, call)
    ELSE Respond(r, IF res = "chit" THEN 404 ELSE 500, <<>>, call)

WriteDelete(c) ==
    /\ req[c].pc = "write_delete"
    /\ \E o \in WriteOutcomes :
          /\ rows' = IF ~o.applied THEN rows
                     ELSE IF resource = "vehicle"
                          THEN PatchById(rows, req[c].id, [deleted_at |-> TRUE])
                          ELSE DeleteById(rows, req[c].id)
          /\ LET call == Call(IF resource = "vehicle" THEN "patch" ELSE "delete",
                              o.delivered, IsLive(rows, req[c].id), rows' # rows,
                              IF o.delivered THEN "value" ELSE "empty")
             IN  req' = [req EXCEPT ![c] =
                           delete_response(req[c], resource, o.delivered, call)]
    /\ UNCHANGED <<resource, nextId, payments>>

\* POST /chits/{id}/collect (chits.py 231-276): 404 without the chit, 400 for a
\* chit already collected, else the PATCH of collect_chit (connection.py
\* 775-791), whose failure is 500.  The body's collected_amount differs from
\* client to client; successes is the history of the ids a client's collects
\* have been answered 200 for.
collected_amount(c) == IF c = "c1" THEN 5000 ELSE 6000

\* (a variant that does not look at is_collected)
collect_check_response_unchecked(r, found, call) ==
    IF found = <<>> THEN Respond(r, 404, <<>>, call)
    ELSE Continue(r, "patch_collect", <<>>, call)

collect_check_response(r, found, call) ==
    IF found = <<>> THEN Respond(r, 404, <<>>, call)
    ELSE IF found[1].is_collected THEN Respond(r, 400, <<>>, call)
    ELSE Continue(r, "patch_collect", <<>>, call)

CollectCheck(c) ==
    /\ req[c].pc = "collect_check"
    /\ \E delivered \in BOOLEAN :
          LET found == db_get_by_id(rows, req[c].id, delivered)
              call  == Call("get_by_id", delivered, IsLive(rows, req[c].id), FALSE,
                            Ret(found))
          IN  req' = [req EXCEPT ![c] = collect_check_response(req[c], found, call)]
    /\ UNCHANGED <<resource, rows, nextId, payments>>

collect_update_data(amount) ==
    [is_collected |-> TRUE, collected_amount |-> amount, collected_date |-> TRUE]

collect_response(r, delivered, call) ==
    IF delivered
    THEN [Respond(r, 200, <<>>, call) EXCEPT !.successes = Append(r.successes, r.id)]
    ELSE Respond(r, 500, <<>>, call)

PatchCollect(c) ==
    /\ req[c].pc = "patch_collect"
    /\ \E o \in WriteOutcomes :
          /\ rows' = IF o.applied
                     THEN PatchById(rows, req[c].id,
                                    collect_update_data(collected_amount(c)))
                     ELSE rows
          /\ LET call == Call("patch", o.delivered, IsLive(rows, req[c].id),
                              rows' # rows, IF o.delivered THEN "value" ELSE "empty")
             IN  req' = [req EXCEPT ![c] = collect_response(req[c], o.delivered, call)]
    /\ UNCHANGED <<resource, nextId, payments>>

(***************************************************************************)
(* Collect requests of a single client, one after the other, over chits    *)
(* that are absent, uncollected, collected or soft-deleted.                *)
(***************************************************************************)
CollectedRow ==
    [NewRow(CreateName) EXCEPT !.is_collected = TRUE, !.collected_amount = 4000,
                               !.collected_date = TRUE]
ChitStates == {AbsentRow, NewRow(CreateName), CollectedRow,
               [NewRow(CreateName) EXCEPT !.deleted_at = TRUE]}

InitCollect ==
    /\ resource = "chit"
    /\ rows \in [Ids -> ChitStates]
    /\ nextId = MaxId + 1
    /\ payments = <<>>
    /\ req = [c \in Clients |-> IdleReq]

StartCollect(c) ==
    /\ req[c].pc = "idle"
    /\ Len(req[c].successes) <= MaxId
    /\ \E id \in Ids :
          req' = [req EXCEPT ![c] =
                    [IdleReq EXCEPT !.op = "collect", !.pc = FirstPc(resource, "collect"),
                                    !.id = id, !.successes = req[c].successes]]
    /\ UNCHANGED <<resource, rows, nextId, payments>>

\* The response has been sent; the client goes on to its next collect.
FinishCollect(c) ==
    /\ req[c].pc = "done"
    /\ req' = [req EXCEPT ![c] = [IdleReq EXCEPT !.successes = req[c].successes]]
    /\ UNCHANGED <<resource, rows, nextId, payments>>

(***************************************************************************)
(* Read requests over a populated store.  The store a read request meets   *)
(* is drawn from two families: one live record whose payments vary in      *)
(* number, amount and type; and tables whose rows vary (absent, open,      *)
(* closed, soft-deleted) under a short payments table that also holds      *)
(* payments of a missing record and payments without a source.  In both,   *)
(* the tables of the resources other than `resource` are empty.            *)
(***************************************************************************)
MaxListed == 3
PaymentTypes == {"credit", "debit"}
PaymentAmounts(res) == IF res = "chit" THEN {900, 1100} ELSE {40, 100}

\* The payments table holding the given (source, amount, type) entries in order,
\* the store numbering them 1, 2, ...
PaymentsTable(entries) ==
    [i \in 1..Len(entries) |->
        Payment(i, entries[i].source_type, entries[i].source_id, entries[i].amount,
                entries[i].payment_type)]

PaymentEntries(sources, amounts, types) ==
    [source_type : {x[1] : x \in sources}, source_id : {x[2] : x \in sources},
     amount : amounts, payment_type : types]

EntryLists(n, entries) == UNION {[1..k -> entries] : k \in 0..n}

\* Payments of record 1 only.
RecordPayments(res) ==
    {PaymentsTable(l) :
        l \in EntryLists(MaxListed,
                         PaymentEntries({<<res, 1>>}, PaymentAmounts(res), PaymentTypes))}

\* Credits of any record id of the resource, and payments with source_type
\* "other" and no source_id (None, read as 0).
MixedSources(res) == {<<res, i>> : i \in Ids} \cup {<<"other", 0>>}
MixedPayments(res) ==
    {PaymentsTable(l) :
        l \in {m \in EntryLists(MaxPayments,
                                [source_type : {res, "other"}, source_id : Ids \cup {0},
                                 amount : {100}, payment_type : {"credit"}]) :
                  \A i \in DOMAIN m : <<m[i].source_type, m[i].source_id>>
                                          \in MixedSources(res)}}

\* A chit's amounts: 12000 over 12 months, or a chit of total_amount 0.
ChitAmounts == {<<12000, 1000>>, <<0, 0>>}
StoredRow(closed, deleted) ==
    [NewRow(CreateName) EXCEPT !.is_closed = closed, !.closure_date = closed,
                               !.deleted_at = deleted]
RowStates ==
    {AbsentRow, StoredRow(FALSE, FALSE), StoredRow(TRUE, FALSE), StoredRow(FALSE, TRUE)}

SingleRecordTables(res) ==
    {[i \in Ids |-> IF i = 1
                    THEN [StoredRow(FALSE, FALSE) EXCEPT !.total_amount = a[1],
                                                         !.monthly_amount = a[2]]
                    ELSE AbsentRow] :
        a \in IF res = "chit" THEN ChitAmounts ELSE {<<12000, 1000>>}}

InitRead ==
    /\ resource \in Entities
    /\ \/ rows \in SingleRecordTables(resource) /\ payments \in RecordPayments(resource)
       \/ rows \in [Ids -> RowStates] /\ payments \in MixedPayments(resource)
    /\ nextId = MaxId + 1
    /\ req = [c \in Clients |-> IdleReq]

Readers == {"c1"}
\* get_vehicles_with_payments is an operation of DatabaseManager that no router
\* calls; it is called here as a caller of the class would.
ReadEndpoints(res) ==
    IF res = "vehicle"
    THEN {"get", "list", "list_payments", "get_payments", "with_payments"}
    ELSE {"get", "list", "list_payments", "get_payments"}

ReadPc(op) ==
    CASE op = "get" -> "fetch"
      [] OTHER      -> op

ClosedFilters == {None, Some(TRUE), Some(FALSE)}

\* get_payments takes source_type and source_id, each of them optional: "" and 0
\* stand for None.
StartRead(c) ==
    /\ req[c].pc = "idle"
    /\ \E op \in ReadEndpoints(resource), id \in Ids, f \in ClosedFilters,
          st \in {"", resource}, sid \in {0, 1} :
          /\ (op \in {"get", "get_payments"}) => f = None
          /\ (op # "get") => id = 1
          /\ (op # "get_payments") => (st = "" /\ sid = 0)
          /\ req' = [req EXCEPT ![c] =
                       [IdleReq EXCEPT !.op = op, !.pc = ReadPc(op),
                                       !.id = IF op = "get" THEN id
                                              ELSE IF op = "get_payments" THEN sid
                                              ELSE 0,
                                       !.source_type = st,
                                       !.is_closed = f]]
    /\ UNCHANGED <<resource, rows, nextId, payments>>

IdsOf(records) == {records[k].id : k \in DOMAIN records}

\* One element of a list response: the record's columns and its derived figures.
ListItem(record) ==
    [id |-> record.id, is_closed |-> record.is_closed, deleted_at |-> record.deleted_at,
     total_payments |-> 0, pending_amount |-> 0, total_profit |-> 0,
     profit_percentage |-> Zero, payments_count |-> 0]

\* DatabaseManager has no health_check method: `await db.health_check()`
\* (vehicles.py 27) raises AttributeError, which the handler's
\* `except Exception` answers with 500, before any query is made.
health_check_raises == TRUE

\* GET /loans/, /outside-interest/, /chits/ (loans.py 16-39, outside_interest.py
\* 16-39, chits.py 12-55): the list query, then one get_payments call per record
\* listed; d[i] tells whether the call for record i is delivered.
list_response(r, res, records, ps, d, call) ==
    [Respond(r, 200, records, call) EXCEPT
        !.items = [k \in 1..Len(records) |->
                     enrich(ListItem(records[k]), res, records[k],
                            db_get_payments(ps, res, records[k].id, d[records[k].id]))],
        !.log = Append(r.log, call)
                \o [k \in 1..Len(records) |->
                      Call("get_payments", d[records[k].id], TRUE, FALSE,
                           Ret(db_get_payments(ps, res, records[k].id,
                                               d[records[k].id])))]]

\* GET /vehicles/getAll (vehicles.py 16-75): the health check comes first.  As it
\* raises, the handler answers 500; the rest of the handler (503 for an unhealthy
\* store, else the list query and one get_payments call per vehicle listed,
\* vehicles.py 28-65) is never run.
get_all_vehicles_response(r, healthy, listed) ==
    IF health_check_raises
    THEN Respond(r, 500, <<>>, Call("health_check", FALSE, FALSE, FALSE, "raise"))
    ELSE IF ~healthy
    THEN Respond(r, 503, <<>>, Call("health_check", TRUE, FALSE, FALSE, "value"))
    ELSE [listed EXCEPT
            !.log = <<Call("health_check", TRUE, FALSE, FALSE, "value")>> \o listed.log]

ListRecords(c) ==
    /\ req[c].pc = "list"
    /\ \E healthy \in BOOLEAN, delivered \in BOOLEAN, d \in [Ids -> BOOLEAN] :
          LET records == db_list_where(rows, req[c].is_closed, delivered)
              call    == Call("list", delivered, FALSE, FALSE, Ret(records))
              listed  == list_response(req[c], resource, records, payments, d, call)
          IN  /\ \A i \in Ids : (i \notin IdsOf(records)) => d[i]
              /\ (resource # "vehicle") => healthy
              /\ req' = [req EXCEPT ![c] =
                           IF resource = "vehicle"
                           THEN get_all_vehicles_response(req[c], healthy, listed)
                           ELSE listed]
    /\ UNCHANGED <<resource, rows, nextId, payments>>

\* GET payments?source_type=eq.<st>&source_id=in.(<ids>)&select=source_id,amount
RECURSIVE SelectPaymentsIn(_, _, _)
SelectPaymentsIn(ps, st, ids) ==
    IF ps = <<>> THEN <<>>
    ELSE (IF ps[1].source_type = st /\ ps[1].source_id \in ids
          THEN <<[source_id |-> ps[1].source_id, amount |-> ps[1].amount]>> ELSE <<>>)
         \o SelectPaymentsIn(Tail(ps), st, ids)

\* payment_totals.get(vehicle_id, 0) of connection.py 181-193.
RECURSIVE batched_total(_, _)
batched_total(ps, id) ==
    IF ps = <<>> THEN 0
    ELSE (IF ps[1].source_id = id THEN ps[1].amount ELSE 0) + batched_total(Tail(ps), id)

\* DatabaseManager.get_vehicles_with_payments (connection.py 155-208): the list
\* query; nothing more for an empty list; otherwise one payments query for all
\* the ids, whose sums become total_payments (pending_amount is not touched); when
\* that query raises, the list query is made again and returned as it is.
with_payments_result(r, rs, ps, d1, d2, d3) ==
    LET vehicles == db_list_where(rs, r.is_closed, d1)
        listed   == Call("list", d1, FALSE, FALSE, Ret(vehicles))
        batch    == SelectPaymentsIn(ps, "vehicle", IdsOf(vehicles))
        fallback == db_list_where(rs, r.is_closed, d3)
    IN  IF vehicles = <<>> THEN Respond(r, 0, <<>>, listed)
        ELSE IF d2
        THEN [Respond(r, 0, vehicles, listed) EXCEPT
                !.items = [k \in DOMAIN vehicles |->
                             [ListItem(vehicles[k]) EXCEPT
                                 !.total_payments = batched_total(batch, vehicles[k].id)]],
                !.log = r.log \o <<listed,
                                   Call("payments_in", TRUE, FALSE, FALSE, Ret(batch))>>]
        ELSE [Respond(r, 0, fallback, listed) EXCEPT
                !.items = [k \in DOMAIN fallback |-> ListItem(fallback[k])],
                !.log = r.log \o <<listed,
                                   Call("payments_in", FALSE, FALSE, FALSE, "raise"),
                                   Call("list", d3, FALSE, FALSE, Ret(fallback))>>]

\* The table of an entity: the one the behaviour populates, or an empty one.
TableOf(res) == IF res = resource THEN rows ELSE [i \in Ids |-> AbsentRow]

\* (a variant that lets every payment through)
valid_payment_any(p, lookups) == TRUE

\* valid_payment of payments.py 43-98: a payment of an entity type with a
\* source_id is kept when its id is in that entity's lookup dictionary; any other
\* payment is kept (source_id None is 0 here, falsy either way).
valid_payment(p, lookups) ==
    IF p.source_type \in Entities /\ p.source_id # 0
    THEN p.source_id \in lookups[p.source_type]
    ELSE TRUE

RECURSIVE enhanced_payments(_, _)
enhanced_payments(ps, lookups) ==
    IF ps = <<>> THEN <<>>
    ELSE (IF valid_payment(ps[1], lookups) THEN <<ps[1]>> ELSE <<>>)
         \o enhanced_payments(Tail(ps), lookups)

\* GET /payments/ without query parameters (payments.py 13-104): every payment,
\* then the four tables (each list swallowing its failure into []), then the
\* filter.  d tells which of the four list calls are delivered.
payments_response(r, ps, dp, d) ==
    [r EXCEPT !.pc = "done", !.status = 200,
              !.items = enhanced_payments(
                            IF dp THEN ps ELSE <<>>,
                            [e \in Entities |-> IdsOf(db_list(TableOf(e), d[e]))]),
              !.log = r.log
                      \o <<Call("get_payments", dp, FALSE, FALSE,
                                 Ret(IF dp THEN ps ELSE <<>>)),
                            Call("list", d["vehicle"], FALSE, FALSE,
                                 Ret(db_list(TableOf("vehicle"), d["vehicle"]))),
                            Call("list", d["loan"], FALSE, FALSE,
                                 Ret(db_list(TableOf("loan"), d["loan"]))),
                            Call("list", d["outside_interest"], FALSE, FALSE,
                                 Ret(db_list(TableOf("outside_interest"),
                                             d["outside_interest"]))),
                            Call("list", d["chit"], FALSE, FALSE,
                                 Ret(db_list(TableOf("chit"), d["chit"])))>>]

ListPayments(c) ==
    /\ req[c].pc = "list_payments"
    /\ \E dp \in BOOLEAN, d \in [Entities -> BOOLEAN] :
          /\ \A e \in Entities : (e # resource) => d[e]
          /\ req' = [req EXCEPT ![c] = payments_response(req[c], payments, dp, d)]
    /\ UNCHANGED <<resource, rows, nextId, payments>>

\* GET payments?source_type=eq.<st>
RECURSIVE SelectPaymentsOfType(_, _)
SelectPaymentsOfType(ps, st) ==
    IF ps = <<>> THEN <<>>
    ELSE (IF ps[1].source_type = st THEN <<ps[1]>> ELSE <<>>)
         \o SelectPaymentsOfType(Tail(ps), st)

\* DatabaseManager.get_payments(source_type, source_id) (connection.py 378-391).
\* The endpoint is "payments", followed by "?source_type=eq.<st>" when source_type
\* is given and by "&source_id=eq.<sid>" when source_id is given.  With source_id
\* alone the endpoint is "payments&source_id=eq.<sid>": a path without a query,
\* naming no table of the store, which answers 404; the request raises and the
\* operation returns [] as it does for every exception.
get_payments_result(ps, st, sid, delivered) ==
    IF ~delivered THEN <<>>
    ELSE IF st = "" THEN (IF sid = 0 THEN ps ELSE <<>>)
    ELSE IF sid = 0 THEN SelectPaymentsOfType(ps, st)
    ELSE SelectPayments(ps, st, sid)

\* The operation called as payments.py 24-27 calls it, with the query parameters
\* of the request.
GetPayments(c) ==
    /\ req[c].pc = "get_payments"
    /\ \E delivered \in BOOLEAN :
          LET ps == get_payments_result(payments, req[c].source_type, req[c].id,
                                        delivered)
          IN  req' = [req EXCEPT ![c] =
                        [Respond(req[c], 0, <<>>,
                                 Call("get_payments", delivered, FALSE, FALSE, Ret(ps)))
                            EXCEPT !.items = ps]]
    /\ UNCHANGED <<resource, rows, nextId, payments>>

GetVehiclesWithPayments(c) ==
    /\ req[c].pc = "with_payments"
    /\ \E d1 \in BOOLEAN, d2 \in BOOLEAN, d3 \in BOOLEAN :
          /\ (db_list_where(rows, req[c].is_closed, d1) = <<>>) => (d2 /\ d3)
          /\ d2 => d3
          /\ req' = [req EXCEPT ![c] =
                       with_payments_result(req[c], rows, payments, d1, d2, d3)]
    /\ UNCHANGED <<resource, rows, nextId, payments>>

(***************************************************************************)
(* Specifications                                                          *)
(***************************************************************************)
IdleAging ==
    /\ agRecord = [is_closed |-> FALSE, start |-> <<2024, 1, 1>>,
                   payment_frequency |-> "monthly"]
    /\ agToday = <<2024, 1, 1>>
    /\ agDone = TRUE
    /\ agResult = None
    /\ agRaised = ""

IdleRequest ==
    /\ rqMethod = "GET"
    /\ rqSchedule = [i \in 1..ScheduleLen |-> NetworkError("ConnectError")]
    /\ rqPc = "idle"
    /\ rqAttempt = 0
    /\ rqPending = NoResult
    /\ rqOpen = 0
    /\ rqSleeps = <<>>
    /\ rqResult = NoResult

\* No request has been made and the tables are empty.
InitApi ==
    /\ resource \in Resources
    /\ rows = [i \in Ids |-> AbsentRow]
    /\ nextId = 1
    /\ payments = <<>>
    /\ req = [c \in Clients |-> IdleReq]

IdleApi ==
    /\ resource = "vehicle"
    /\ rows = [i \in Ids |-> AbsentRow]
    /\ nextId = 1
    /\ payments = <<>>
    /\ req = [c \in Clients |-> IdleReq]

NextAging == CalculateExtendedDays /\ UNCHANGED <<request_vars, api_vars>>
\* calculate_extended_days alone: no _make_request call and no API request runs.
InitSpecAging == InitAging /\ IdleRequest /\ IdleApi
SpecAging == InitSpecAging /\ [][NextAging]_vars

NextRequest ==
    \/ OpenClient /\ UNCHANGED <<aging_vars, api_vars>>
    \/ SendRequest /\ UNCHANGED <<aging_vars, api_vars>>
    \/ CloseClient /\ UNCHANGED <<aging_vars, api_vars>>
    \/ HandleException /\ UNCHANGED <<aging_vars, api_vars>>
\* One _make_request call alone.
InitSpecRequest == InitRequest /\ IdleAging /\ IdleApi
SpecRequest == InitSpecRequest /\ [][NextRequest]_vars

Next ==
    \E c \in Clients :
        \/ StartRequest(c) /\ UNCHANGED <<aging_vars, request_vars>>
        \/ FetchRecord(c) /\ UNCHANGED <<aging_vars, request_vars>>
        \/ FetchPayments(c) /\ UNCHANGED <<aging_vars, request_vars>>
        \/ CheckExists(c) /\ UNCHANGED <<aging_vars, request_vars>>
        \/ ValidatePayment(c) /\ UNCHANGED <<aging_vars, request_vars>>
        \/ PostRecord(c) /\ UNCHANGED <<aging_vars, request_vars>>
        \/ Reconcile(c) /\ UNCHANGED <<aging_vars, request_vars>>
        \/ PatchUpdate(c) /\ UNCHANGED <<aging_vars, request_vars>>
        \/ Refetch(c) /\ UNCHANGED <<aging_vars, request_vars>>
        \/ PatchClose(c) /\ UNCHANGED <<aging_vars, request_vars>>
        \/ CollectCheck(c) /\ UNCHANGED <<aging_vars, request_vars>>
        \/ PatchCollect(c) /\ UNCHANGED <<aging_vars, request_vars>>
        \/ WriteDelete(c) /\ UNCHANGED <<aging_vars, request_vars>>
        \/ Finish(c) /\ UNCHANGED <<aging_vars, request_vars>>
\* Read requests against a populated store.
InitSpecRead == InitRead /\ IdleAging /\ IdleRequest
NextRead ==
    \E c \in Readers :
        \/ StartRead(c) /\ UNCHANGED <<aging_vars, request_vars>>
        \/ FetchRecord(c) /\ UNCHANGED <<aging_vars, request_vars>>
        \/ FetchPayments(c) /\ UNCHANGED <<aging_vars, request_vars>>
        \/ ListRecords(c) /\ UNCHANGED <<aging_vars, request_vars>>
        \/ ListPayments(c) /\ UNCHANGED <<aging_vars, request_vars>>
        \/ GetPayments(c) /\ UNCHANGED <<aging_vars, request_vars>>
        \/ GetVehiclesWithPayments(c) /\ UNCHANGED <<aging_vars, request_vars>>
        \/ Finish(c) /\ UNCHANGED <<aging_vars, request_vars>>
SpecRead == InitSpecRead /\ [][NextRead]_vars

\* Collect requests of one client, each ending before the next starts.
InitSpecCollect == InitCollect /\ IdleAging /\ IdleRequest
NextCollect ==
    \E c \in Readers :
        \/ StartCollect(c) /\ UNCHANGED <<aging_vars, request_vars>>
        \/ CollectCheck(c) /\ UNCHANGED <<aging_vars, request_vars>>
        \/ PatchCollect(c) /\ UNCHANGED <<aging_vars, request_vars>>
        \/ FinishCollect(c) /\ UNCHANGED <<aging_vars, request_vars>>
SpecCollect == InitSpecCollect /\ [][NextCollect]_vars

\* API requests against the store.
Init == InitApi /\ IdleAging /\ IdleRequest
Spec == Init /\ [][Next]_vars

(***************************************************************************)
(* Claims about calculate_extended_days (SpecAging)                        *)
(***************************************************************************)
FrequencyFactor(f) ==
    IF f = "monthly" THEN 1 ELSE IF f = "bimonthly" THEN 2 ELSE 3

\* The first day of month m of year y moved by n calendar months, n of either
\* sign, by arithmetic on the month count.
FirstOfMonthPlus(y, m, n) ==
    LET t == y * 12 + (m - 1) + n IN <<t \div 12, (t % 12) + 1, 1>>

DaysPast(today, e) ==
    IF Ordinal(today) - Ordinal(e) > 0 THEN Ordinal(today) - Ordinal(e) ELSE 0

AgingOpenCase ==
    agDone /\ ~agRecord.is_closed /\ agRecord.payment_frequency \in Frequencies

AgingShift == months_diff(agToday, agRecord.start) * FrequencyFactor(agRecord.payment_frequency)

\* C1 as stated: for an open record with a recognised frequency the result is
\* max(0, today - E) days, E being the first day of the start month advanced by
\* months_diff * factor calendar months.
C1_AsStated ==
    AgingOpenCase =>
        agResult = Some(DaysPast(agToday,
                        FirstOfMonthPlus(agRecord.start[1], agRecord.start[2], AgingShift)))

\* C1 amended: the same, with E advanced by max(0, months_diff * factor) months:
\* a start month after today's month is not moved back, and the result is then 0.
C1_ExtendedDays ==
    AgingOpenCase =>
        agResult = Some(DaysPast(agToday,
                        FirstOfMonthPlus(agRecord.start[1], agRecord.start[2],
                                         IF AgingShift > 0 THEN AgingShift ELSE 0)))

\* The example of the claim: start 2024-01-15, monthly, today 2024-03-20 gives 19.
C1_Witness ==
    /\ AgingOpenCase
    /\ agRecord.start = <<2024, 1, 15>>
    /\ agRecord.payment_frequency = "monthly"
    /\ agToday = <<2024, 3, 20>>
    /\ agResult = Some(19)

\* C2: for a record with is_closed = true the result is None, never a number,
\* whatever the dates and the frequency are.
C2_ClosedNotApplicable ==
    (agDone /\ agRecord.is_closed) => agResult = None

C2_Witness ==
    /\ agDone
    /\ agRecord.is_closed
    /\ agRecord.payment_frequency = "quarterly"
    /\ DateLt(agRecord.start, agToday)
    /\ agResult = None

\* C3: for an open record whose payment_frequency is none of monthly, bimonthly,
\* quarterly, the call fails with InvalidFrequency; it yields neither a number
\* nor None.
C3_InvalidFrequencyFails ==
    (agDone /\ ~agRecord.is_closed /\ agRecord.payment_frequency \notin Frequencies)
        => agRaised = "InvalidFrequency"

\* C27: for an open record whose start date is not after today, a monthly record
\* gives today.day - 1 whatever the start; a bimonthly or quarterly record gives
\* today.day - 1 when the start lies in today's calendar month and 0 otherwise;
\* so a start equal to today gives today.day - 1 for every frequency.
StartNotAfterToday == ~DateLt(agToday, agRecord.start)

SameCalendarMonth == agToday[1] = agRecord.start[1] /\ agToday[2] = agRecord.start[2]

C27_DaysIntoMonth ==
    (AgingOpenCase /\ StartNotAfterToday) =>
        /\ agRecord.payment_frequency = "monthly" => agResult = Some(agToday[3] - 1)
        /\ agRecord.payment_frequency # "monthly" =>
               agResult = Some(IF SameCalendarMonth THEN agToday[3] - 1 ELSE 0)
        /\ agRecord.start = agToday =>
               /\ agResult = Some(agToday[3] - 1)
               /\ (agResult = Some(0)) <=> (agToday[3] = 1)

\* A quarterly record lent today, the 20th: 19 days.
C27_Witness ==
    /\ AgingOpenCase
    /\ agRecord.payment_frequency = "quarterly"
    /\ agRecord.start = agToday
    /\ agToday = <<2024, 2, 20>>
    /\ agResult = Some(19)

(***************************************************************************)
(* Claims about _make_request (SpecRequest)                                *)
(***************************************************************************)
RequestEnded == rqPc \in {"returned", "raised"}

AttemptSucceeds(i) ==
    /\ rqMethod \in SupportedMethods
    /\ rqSchedule[i].kind = "response"
    /\ rqSchedule[i].status < 400

\* The body a successful attempt hands back: the decoded content, {} without one.
BodyOf(outcome) ==
    IF Len(outcome.content) = 0 THEN JsonDict(<<>>) ELSE outcome.content[1]

\* C4: when one of the first three attempts succeeds, the call returns the body
\* of the first attempt that succeeds and raises nothing; so a call failing on
\* attempts 1 and 2 and succeeding on attempt 3 returns the third body.
C4_ReturnsFirstSuccess ==
    RequestEnded =>
        \A i \in 1..3 :
            (AttemptSucceeds(i) /\ \A j \in 1..(i - 1) : ~AttemptSucceeds(j))
                => /\ rqPc = "returned"
                   /\ rqResult.kind = "return"
                   /\ rqResult.value = BodyOf(rqSchedule[i])

C4_Witness ==
    /\ rqPc = "returned"
    /\ ~AttemptSucceeds(1) /\ ~AttemptSucceeds(2) /\ AttemptSucceeds(3)
    /\ rqSchedule[1].kind = "exception" /\ rqSchedule[2].kind = "exception"
    /\ rqResult.value = BodyOf(rqSchedule[3])

\* C5: a response with status >= 400 is not retried: the call makes exactly one
\* attempt, sleeps for no backoff and raises at once.
C5_HttpErrorNotRetried ==
    (RequestEnded /\ rqMethod \in SupportedMethods
        /\ rqSchedule[1].kind = "response" /\ rqSchedule[1].status >= 400)
        => (rqPc = "raised" /\ rqAttempt = 0 /\ rqSleeps = <<>>)

(***************************************************************************)
(* Claims about the DatabaseManager operations and the API handlers (Spec) *)
(***************************************************************************)
Done(c) == req[c].pc = "done"
LastCall(c) == req[c].log[Len(req[c].log)]

\* C6: when the transport under a list operation (get_vehicles, get_loans,
\* get_outside_interest, get_chits, get_payments) fails on every attempt, the
\* operation raises to its caller; it never returns an empty list.
C6_ListFailureSurfaces ==
    \A c \in Clients : \A i \in DOMAIN req[c].log :
        (req[c].log[i].call \in {"list", "get_payments"} /\ ~req[c].log[i].delivered)
            => req[c].log[i].ret = "raise"

\* C7: a create whose POST succeeded with an empty body answers with a record
\* whose id is the id of a stored row, or with an error; never with a made-up id.
C7_CreateReturnsStoredId ==
    \A c \in Clients :
        (Done(c) /\ req[c].op = "create" /\ req[c].status = 200
            /\ req[c].log[1].call = "post" /\ req[c].log[1].ret = "empty")
            => req[c].id_stored

\* C8: an update whose PATCH did not error and whose re-fetch finds no non-deleted
\* row with the id ends in a failure response, never in a success response with
\* an empty or partial record.
UpdateRefetchMissing(c) ==
    /\ Done(c) /\ req[c].op = "update" /\ Len(req[c].log) >= 3
    /\ req[c].log[2].call = "patch" /\ req[c].log[2].delivered
    /\ req[c].log[3].delivered /\ ~req[c].log[3].live

C8_UpdateRefetchMissingFails ==
    \A c \in Clients :
        UpdateRefetchMissing(c) => (req[c].status >= 400 /\ req[c].body = <<>>)

C8_Witness ==
    \E c \in Clients :
        UpdateRefetchMissing(c) /\ req[c].log[1].live /\ req[c].status = 500

\* C9: a close call, or a chit delete call, for an id that matches no row or only
\* a soft-deleted row answers 404 and changes no row of the store.
C9_CloseMissingIsNotFound ==
    \A c \in Clients :
        (Done(c) /\ (req[c].op = "close" \/ (req[c].op = "delete" /\ resource = "chit"))
            /\ ~LastCall(c).live)
            => (req[c].status = 404 /\ ~LastCall(c).changed)

\* C10: a get by id answers 404 only when the store holds no non-deleted row with
\* the id; when the store is unreachable on every attempt the answer is not 404.
C10_GetNotFoundOnlyWhenAbsent ==
    \A c \in Clients :
        (Done(c) /\ req[c].op = "get")
            => /\ req[c].status = 404 => ~req[c].log[1].live
               /\ ~req[c].log[1].delivered => req[c].status # 404

(***************************************************************************)
(* Claims about the derived payment figures (SpecRead)                     *)
(***************************************************************************)
\* The payments the store holds for a record, and their sums by type, taken from
\* the end of the table.
StoredPayments(st, sid) ==
    {i \in DOMAIN payments :
        payments[i].source_type = st /\ payments[i].source_id = sid}

RECURSIVE SumStored(_, _, _, _)
SumStored(st, sid, ptype, n) ==
    IF n = 0 THEN 0
    ELSE SumStored(st, sid, ptype, n - 1)
         + (IF n \in StoredPayments(st, sid) /\ payments[n].payment_type = ptype
            THEN payments[n].amount ELSE 0)

GotRecord(c) ==
    Done(c) /\ req[c].op = "get" /\ req[c].status = 200

\* C11: a loan or outside-interest record is reported with totals (0, 0) only when
\* the store holds no payments for it; a payments fetch that fails is answered
\* with an error, never with zero totals.
C11_ZeroTotalsOnlyWithoutPayments ==
    \A c \in Clients :
        (Done(c) /\ req[c].op = "get" /\ resource \in {"loan", "outside_interest"}
            /\ Len(req[c].log) = 2)
            => /\ (req[c].status = 200 /\ req[c].total_payments = 0
                      /\ req[c].pending_amount = 0)
                  => StoredPayments(resource, req[c].id) = {}
               /\ ~req[c].log[2].delivered => req[c].status >= 400

\* C12: calculate_payment_totals over the payments of a source returns the sum of
\* the credit amounts as total_payments and the sum of the debit amounts as
\* pending_amount; no payments give (0, 0), [credit 100, debit 40] gives (100, 40).
TotalsComputed(c) ==
    /\ GotRecord(c) /\ resource \in {"loan", "outside_interest"}
    /\ Len(req[c].log) = 2 /\ req[c].log[2].delivered

C12_TotalsByPaymentType ==
    \A c \in Clients :
        TotalsComputed(c)
            => /\ req[c].total_payments
                    = SumStored(resource, req[c].id, "credit", Len(payments))
               /\ req[c].pending_amount
                    = SumStored(resource, req[c].id, "debit", Len(payments))

C12_Witness ==
    \E c \in Clients :
        /\ TotalsComputed(c)
        /\ Len(payments) = 2
        /\ payments[1].payment_type = "credit" /\ payments[1].amount = 100
        /\ payments[2].payment_type = "debit" /\ payments[2].amount = 40
        /\ StoredPayments(resource, req[c].id) = {1, 2}
        /\ req[c].total_payments = 100 /\ req[c].pending_amount = 40

(***************************************************************************)
(* Claims about closing and deleting (Spec, SpecRead)                      *)
(***************************************************************************)
\* C13: in every state reachable by create, update, close and delete requests, a
\* stored record has closure_date set exactly when its is_closed is true.
C13_ClosureDateIffClosed ==
    \A i \in Ids : rows[i].exists => (rows[i].closure_date <=> rows[i].is_closed)

C13_Witness ==
    \E i \in Ids, c \in Clients :
        /\ rows[i].exists /\ rows[i].is_closed /\ rows[i].closure_date
        /\ Done(c) /\ req[c].op = "close" /\ req[c].id = i /\ req[c].status = 200

\* The records a finished read request handed back.
Returned(c) ==
    IF req[c].op = "get" THEN {req[c].body[k] : k \in DOMAIN req[c].body}
    ELSE {req[c].items[k] : k \in DOMAIN req[c].items}

ReadDone(c) == Done(c) /\ req[c].op \in {"get", "list", "with_payments"}

\* C14: no list call, with or without the is_closed filter, and no get by id
\* returns a soft-deleted record (vehicle, loan, outside interest or chit), and a
\* list call with is_closed = b returns only records whose is_closed is b.
C14_DeletedNeverListed ==
    \A c \in Clients :
        ReadDone(c)
            => \A x \in Returned(c) :
                  /\ rows[x.id].exists /\ ~rows[x.id].deleted_at
                  /\ req[c].is_closed # None => x.is_closed = req[c].is_closed[1]
                  /\ x.is_closed = rows[x.id].is_closed

C14_Witness ==
    \E c \in Clients, i \in Ids, j \in Ids :
        /\ Done(c) /\ req[c].op = "list" /\ req[c].is_closed = Some(FALSE)
        /\ rows[i].exists /\ rows[i].deleted_at
        /\ rows[j].exists /\ ~rows[j].deleted_at /\ ~rows[j].is_closed
        /\ \E x \in Returned(c) : x.id = j
        /\ \A x \in Returned(c) : x.id # i

(***************************************************************************)
(* Claims about the chit profit figures (SpecRead)                         *)
(***************************************************************************)
\* The figures of the chits handed back by a finished get-chit or list-chits
\* request whose payments query for that chit was delivered.
ChitFigures(c) ==
    IF ~(Done(c) /\ resource = "chit" /\ req[c].status = 200) THEN {}
    ELSE IF req[c].op = "get"
    THEN {[id |-> req[c].id, total_payments |-> req[c].total_payments,
           total_profit |-> req[c].total_profit,
           profit_percentage |-> req[c].profit_percentage,
           payments_count |-> req[c].payments_count] : k \in {2} \cap
              {j \in DOMAIN req[c].log : req[c].log[j].delivered}}
    ELSE IF req[c].op = "list"
    THEN {[id |-> req[c].items[k].id, total_payments |-> req[c].items[k].total_payments,
           total_profit |-> req[c].items[k].total_profit,
           profit_percentage |-> req[c].items[k].profit_percentage,
           payments_count |-> req[c].items[k].payments_count] :
              k \in {j \in DOMAIN req[c].items : req[c].log[j + 1].delivered}}
    ELSE {}

PaidTotal(id) ==
    SumStored("chit", id, "credit", Len(payments))
    + SumStored("chit", id, "debit", Len(payments))
PaidCount(id) == Cardinality(StoredPayments("chit", id))
ExpectedTotal(id) == rows[id].monthly_amount * PaidCount(id)

\* profit_percentage = 100 * total_profit / total_amount, or 0 without total_amount.
PercentageRight(x) ==
    IF rows[x.id].total_amount > 0
    THEN x.profit_percentage = Fraction(100 * x.total_profit, rows[x.id].total_amount)
    ELSE x.profit_percentage = Zero

\* C15 as stated: total_payments is the sum of the chit's payment amounts,
\* total_profit is monthly_amount * payment_count - total_payments whatever its
\* sign, and profit_percentage is 100 * total_profit / total_amount, or 0 when
\* total_amount is 0.
C15_AsStated ==
    \A c \in Clients : \A x \in ChitFigures(c) :
        /\ x.total_payments = PaidTotal(x.id)
        /\ x.total_profit = ExpectedTotal(x.id) - PaidTotal(x.id)
        /\ PercentageRight(x)

\* C15, amended: total_profit is monthly_amount * payment_count - total_payments,
\* negative when more was paid than expected, provided that
\* monthly_amount * payment_count is positive; otherwise total_profit is 0.
C15_ChitProfit ==
    \A c \in Clients : \A x \in ChitFigures(c) :
        /\ x.total_payments = PaidTotal(x.id)
        /\ x.payments_count = PaidCount(x.id)
        /\ x.total_profit = IF ExpectedTotal(x.id) > 0
                            THEN ExpectedTotal(x.id) - PaidTotal(x.id) ELSE 0
        /\ PercentageRight(x)

\* total_amount 12000 over 12 months, three payments of 900: 2700, 300, 2.5.
C15_Witness ==
    \E c \in Clients : \E x \in ChitFigures(c) :
        /\ rows[x.id].total_amount = 12000 /\ rows[x.id].monthly_amount = 1000
        /\ PaidCount(x.id) = 3 /\ \A i \in StoredPayments("chit", x.id) : payments[i].amount = 900
        /\ x.total_payments = 2700 /\ x.total_profit = 300
        /\ x.profit_percentage[1] * 2 = 5 * x.profit_percentage[2]

(***************************************************************************)
(* Claims about payments (Spec, SpecRead)                                  *)
(***************************************************************************)
\* C16: a create-payment request with any source_type among vehicle, loan,
\* outside_interest, chit and other passes input validation and is sent to the
\* store.
C16_EverySourceTypeAccepted ==
    \A c \in Clients :
        (Done(c) /\ resource = "payment" /\ req[c].op = "create"
            /\ req[c].source_type \in RequestedSourceTypes)
            => /\ req[c].status # 422
               /\ \E i \in DOMAIN req[c].log : req[c].log[i].call = "post"

\* C17: vehicle get and list responses carry the totals that loans and
\* outside-interest records carry: total_payments is the sum of the vehicle's
\* credit payments only and pending_amount the sum of its debit payments only.
C17_VehicleTotalsByType ==
    \A c \in Clients :
        /\ (GotRecord(c) /\ resource = "vehicle" /\ Len(req[c].log) = 2
               /\ req[c].log[2].delivered)
               => /\ req[c].total_payments
                       = SumStored("vehicle", req[c].id, "credit", Len(payments))
                  /\ req[c].pending_amount
                       = SumStored("vehicle", req[c].id, "debit", Len(payments))
        /\ (Done(c) /\ req[c].op = "with_payments" /\ Len(req[c].log) = 2)
               => \A k \in DOMAIN req[c].items :
                     req[c].items[k].total_payments
                        = SumStored("vehicle", req[c].items[k].id, "credit", Len(payments))

PaymentsListed(c) == Done(c) /\ req[c].op = "list_payments" /\ req[c].status = 200
Typed(p) == p.source_type \in Entities /\ p.source_id # 0
Referenced(p) ==
    /\ p.source_id \in Ids
    /\ TableOf(p.source_type)[p.source_id].exists
    /\ ~TableOf(p.source_type)[p.source_id].deleted_at
ListedPayments(c) == {req[c].items[k] : k \in DOMAIN req[c].items}

\* C18: every payment returned by GET /payments whose source_type is vehicle,
\* loan, outside_interest or chit and whose source_id is set references a stored
\* record of that type that is not soft-deleted, so that a payment whose record is
\* missing is omitted; a payment of another source_type or without source_id that
\* the payments query delivered is always included.
C18_DanglingPaymentsOmitted ==
    \A c \in Clients :
        PaymentsListed(c)
            => /\ \A x \in ListedPayments(c) : Typed(x) => Referenced(x)
               /\ \A i \in DOMAIN payments :
                     (Typed(payments[i]) /\ ~Referenced(payments[i]))
                        => payments[i] \notin ListedPayments(c)
               /\ req[c].log[1].delivered
                     => \A i \in DOMAIN payments :
                           ~Typed(payments[i]) => payments[i] \in ListedPayments(c)

C18_Witness ==
    \E c \in Clients, i \in DOMAIN payments, j \in DOMAIN payments :
        /\ PaymentsListed(c)
        /\ Typed(payments[i]) /\ ~Referenced(payments[i])
        /\ rows[payments[i].source_id].exists /\ rows[payments[i].source_id].deleted_at
        /\ Typed(payments[j]) /\ Referenced(payments[j])
        /\ payments[i] \notin ListedPayments(c)
        /\ payments[j] \in ListedPayments(c)

(***************************************************************************)
(* Claims about the vehicle list (SpecRead)                                *)
(***************************************************************************)
\* The vehicles a list query with the request's filter finds in the store.
Listable(c) ==
    {i \in LiveIds(rows) : req[c].is_closed # None => rows[i].is_closed = req[c].is_closed[1]}

PaymentsQueries(c) ==
    {i \in DOMAIN req[c].log : req[c].log[i].call \in {"get_payments", "payments_in"}}

\* C19: enriching the list of N vehicles with payment totals issues exactly one
\* payments query (source_type vehicle, source_id in the listed ids) whatever N
\* is, in get_vehicles_with_payments and in the vehicle list endpoint, which
\* never issues one query per vehicle.
C19_OneBatchedPaymentsQuery ==
    \A c \in Clients :
        /\ (Done(c) /\ req[c].op = "with_payments" /\ req[c].log[1].ret = "value")
              => /\ Cardinality(PaymentsQueries(c)) = 1
                 /\ \A i \in PaymentsQueries(c) : req[c].log[i].call = "payments_in"
        /\ (Done(c) /\ req[c].op = "list" /\ resource = "vehicle" /\ Listable(c) # {})
              => /\ Cardinality(PaymentsQueries(c)) = 1
                 /\ \A i \in PaymentsQueries(c) : req[c].log[i].call = "payments_in"

\* C20: GET /vehicles/getAll answers 200 with the list of the vehicles that are
\* not deleted, each with its totals, and 503 only when the health check fails.
C20_GetAllAnswers ==
    \A c \in Clients :
        (Done(c) /\ req[c].op = "list" /\ resource = "vehicle")
            => \/ req[c].status = 200 /\ IdsOf(req[c].items) = Listable(c)
               \/ req[c].status = 503 /\ ~LastCall(c).delivered

(***************************************************************************)
(* Claims about the retry loop of _make_request (SpecRequest)              *)
(***************************************************************************)
\* The exception attempt i ends with, "" when it succeeds.
FailureOf(i) ==
    IF rqMethod \notin SupportedMethods THEN "ValueError"
    ELSE IF rqSchedule[i].kind = "exception" THEN rqSchedule[i].exc
    ELSE IF rqSchedule[i].status >= 400 THEN "HTTPStatusError"
    ELSE ""

Backoffs == <<500, 1000>>

\* C21: a call makes at most max_retries + 1 = 3 attempts; after failed attempt k
\* (k = 0, 1) it waits 0.5 * 2^k seconds before the next one, and after the last
\* failed attempt it raises that attempt's exception without waiting again.
C21_RetrySchedule ==
    /\ rqAttempt + 1 <= 3
    /\ Len(rqSleeps) = rqAttempt
    /\ \A k \in DOMAIN rqSleeps : rqSleeps[k] = Backoffs[k]
    /\ \A k \in 1..rqAttempt : FailureOf(k) # ""
    /\ rqPc = "raised"
          => /\ rqAttempt = 2 /\ rqSleeps = Backoffs
             /\ rqResult.kind = "raise" /\ rqResult.exc = FailureOf(3)
             /\ FailureOf(3) # ""

C21_Witness ==
    /\ rqPc = "raised" /\ rqMethod \in SupportedMethods
    /\ \A i \in 1..3 : rqSchedule[i].kind = "exception"
    /\ rqSleeps = <<500, 1000>>
    /\ rqSchedule[4].kind = "response" /\ rqSchedule[4].status = 200

\* C22: every client opened for an attempt is closed exactly once before the
\* attempt ends, whether it ends with a response, an HTTP error status, a
\* transport exception or an unsupported method: no client is open when the next
\* attempt starts or when the call returns or raises.
C22_ClientClosedEveryAttempt ==
    /\ rqOpen \in {0, 1}
    /\ rqPc \in {"send", "finally"} <=> rqOpen = 1
    /\ rqPc \in {"open", "except", "returned", "raised"} => rqOpen = 0

C22_Witness ==
    /\ rqPc = "returned" /\ rqOpen = 0 /\ rqAttempt = 2
    /\ rqSchedule[1].kind = "exception"
    /\ rqSchedule[2].kind = "response" /\ rqSchedule[2].status >= 400

(***************************************************************************)
(* Claims about writes (Spec)                                              *)
(***************************************************************************)
\* C23: after a successful update of a loan, the record returned and the row
\* stored have, for every field of the update body (interest_rate_indian
\* included), the value given in the body.
C23_UpdateStoresEveryField ==
    \A c \in Clients :
        (Done(c) /\ resource = "loan" /\ req[c].op = "update" /\ req[c].status = 200)
            => \A k \in DOMAIN update_data("loan") :
                  /\ req[c].body[1][k] = update_data("loan")[k]
                  /\ rows[req[c].id].exists
                        => rows[req[c].id][k] = update_data("loan")[k]

(***************************************************************************)
(* Claims about collecting a chit (SpecCollect, Spec)                      *)
(***************************************************************************)
Collected(c) == Done(c) /\ req[c].op = "collect"
\* How often a client's collects of chit i have been answered 200.
SuccessesOn(c, i) ==
    Cardinality({k \in DOMAIN req[c].successes : req[c].successes[k] = i})

\* A collect rejected at its check made no write: the store is as the check saw it.
CollectRejectedRight(c) ==
    (Collected(c) /\ Len(req[c].log) = 1 /\ req[c].log[1].delivered)
        => /\ ~IsLive(rows, req[c].id) => req[c].status = 404
           /\ (IsLive(rows, req[c].id) /\ rows[req[c].id].is_collected)
                 => req[c].status = 400
           /\ req[c].status \in {400, 404}

\* A step leaves the collection columns of a collected chit alone.
CollectedStays ==
    \A i \in Ids :
        (rows[i].exists /\ rows[i].is_collected)
            => /\ rows'[i].is_collected
               /\ rows'[i].collected_amount = rows[i].collected_amount
               /\ rows'[i].collected_date = rows[i].collected_date

\* C24: over collect calls on one chit that run one after the other at most one
\* is answered with success; a collect on a collected chit is rejected with 400
\* and leaves collected_amount and collected_date as they are, a collect on a
\* missing chit is rejected with 404, and collected_amount is only ever written
\* together with is_collected = true.
C24_CollectAtMostOnce ==
    /\ [](\A c \in Clients :
            /\ \A i \in Ids : SuccessesOn(c, i) <= 1
            /\ CollectRejectedRight(c))
    /\ [](\A i \in Ids :
            (rows[i].collected_amount # 0 \/ rows[i].collected_date)
                => rows[i].is_collected)
    /\ [][CollectedStays]_vars

C24_Witness ==
    \E c \in Clients :
        /\ Collected(c) /\ req[c].status = 400
        /\ SuccessesOn(c, req[c].id) = 1
        /\ rows[req[c].id].is_collected
        /\ rows[req[c].id].collected_amount = collected_amount(c)

(***************************************************************************)
(* Claims about get_payments (SpecRead)                                    *)
(***************************************************************************)
\* The stored payments that match every filter the request supplied.
Matching(c) ==
    {payments[i] : i \in {j \in DOMAIN payments :
        /\ req[c].source_type # "" => payments[j].source_type = req[c].source_type
        /\ req[c].id # 0 => payments[j].source_id = req[c].id}}

\* C25: get_payments(source_type, source_id) returns exactly the payments that
\* match every filter supplied: those with the source_id when only source_id is
\* supplied, and all payments when neither is.
C25_EveryFilterApplied ==
    \A c \in Clients :
        (Done(c) /\ req[c].op = "get_payments" /\ req[c].log[1].delivered)
            => {req[c].items[k] : k \in DOMAIN req[c].items} = Matching(c)


\* C26: is_closed is monotonic.  No step of any request (create, update, close,
\* collect, delete, payment creation) turns the is_closed of a stored record
\* from true to false; a lookup that finds a closed record hands it on as
\* closed; and a get of a loan or an outside-interest record answered with a
\* closed record reports extended_days as None.
ClosedStays ==
    \A i \in Ids :
        (rows[i].exists /\ rows[i].is_closed /\ rows'[i].exists) => rows'[i].is_closed

ClosedReadAsClosed ==
    \A c \in Clients :
        (req[c].pc = "fetch" /\ req'[c].pc = "payments" /\ rows[req[c].id].is_closed)
            => req'[c].body[1].is_closed

ClosedGetNotApplicable ==
    \A c \in Clients :
        (/\ req[c].pc = "done" /\ req[c].op = "get" /\ req[c].status = 200
         /\ resource \in {"loan", "outside_interest"}
         /\ req[c].body[1].is_closed)
            => req[c].extended_days = None

C26_ClosedIsMonotonic ==
    /\ [][ClosedStays]_vars
    /\ [][ClosedReadAsClosed]_vars
    /\ []ClosedGetNotApplicable

\* A closed loan has since been updated by one client (its name is the new one)
\* and is then read by the other: it is still closed and the get says so.
C26_Witness ==
    /\ resource = "loan"
    /\ rows[1].exists /\ rows[1].is_closed /\ rows[1].name = UpdateName
    /\ req["c1"].pc = "done" /\ req["c1"].op = "get" /\ req["c1"].status = 200
    /\ req["c1"].id = 1 /\ req["c1"].body[1].is_closed
    /\ req["c1"].body[1].name = UpdateName
    /\ req["c1"].extended_days = None

\* C28: a single create call adds at most one row to its table, also when an
\* attempt of its POST fails after the store applied the insert and the request
\* is retried: no step adds more than one row or more than one payment.
C28_CreateAddsAtMostOneRow ==
    [][nextId' <= nextId + 1 /\ Len(payments') <= Len(payments) + 1]_vars

\* C29: a create that reports failure (HTTP 500) has left no new row in the
\* store: its POST changed nothing.
C29_FailedCreateStoresNothing ==
    \A c \in Clients :
        (Done(c) /\ req[c].op = "create" /\ req[c].status = 500)
            => \A i \in DOMAIN req[c].log :
                   req[c].log[i].call = "post" => ~req[c].log[i].changed

\* C30: of two collect requests for the same chit that both read it before
\* either writes, at most one is answered with success, and the stored
\* collected_amount is the amount that request sent.
C30_OneInterleavedCollectWins ==
    \A c, d \in Clients :
        (/\ c # d /\ Done(c) /\ Done(d)
         /\ req[c].op = "collect" /\ req[d].op = "collect" /\ req[c].id = req[d].id
         /\ req[c].status = 200)
            => /\ req[d].status # 200
               /\ rows[req[c].id].exists =>
                      rows[req[c].id].collected_amount = collected_amount(c)


====
